---- MODULE Spec2Model ----
(***************************************************************************)
(* Availability and conflict-resolution engine of the court booking        *)
(* back end: BookingsService (dashboard), PublicBookingsController         *)
(* (public create) and CourtAvailabilityService (blackouts).               *)
(*                                                                         *)
(* Time is naive local time.  An instant is a number of ticks since        *)
(* midnight of day 0; a day has DayLen ticks.  A calendar date             *)
(* ("YYYY-MM-DD") is a day number, an "HH:mm" string is a tick of the day. *)
(***************************************************************************)
EXTENDS Integers, FiniteSets, Sequences, TLC

VARIABLES bookings, blocks, nextId, nextBlockId, result, pend

vars == <<bookings, blocks, nextId, nextBlockId, result, pend>>

(***************************************************************************)
(* Bounds of the model.                                                    *)
(***************************************************************************)
DayLen == 3
MaxDay == 1
MaxDur == 2
LifeHorizon == 1
MaxBookings == 2
MaxLifeBookings == 1
MaxAvailBookings == 1
MaxBlocks == 1
MaxInflight == 2

(***************************************************************************)
(* Absent optional fields of a request body or of a row.                   *)
(***************************************************************************)
Absent == "absent"
NoTime == -1
NoId == 0

(***************************************************************************)
(* Catalog rows read through the persistence boundary (court with its      *)
(* complex, client).  "c0" and "k0" are ids without a row; court "c3" is    *)
(* switched off.                                                           *)
(***************************************************************************)
Users == {"u1", "u2"}

court == [c1 |-> [complex |-> "u1", isActive |-> TRUE],
          c2 |-> [complex |-> "u2", isActive |-> TRUE],
          c3 |-> [complex |-> "u1", isActive |-> FALSE]]

client == [k1 |-> [userId |-> "u1"],
           k2 |-> [userId |-> "u2"]]

StatusSet == {"pending", "confirmed", "cancelled", "completed"}
PaymentStatusSet == {"pending", "paid", "refunded"}
ActiveStatus == {"pending", "confirmed"}

(***************************************************************************)
(* Date arithmetic.                                                        *)
(***************************************************************************)
\* new Date("YYYY-MM-DD"): midnight of that calendar day
Midnight(d) == d * DayLen

\* d.setHours(0, 0, 0, 0)
StartOfDay(t) == (t \div DayLen) * DayLen

\* d.getHours() * 60 + d.getMinutes()
MinutesOfDay(t) == t % DayLen

\* d = new Date(date); d.setHours(h, m, 0, 0)
SetHours(d, hm) == Midnight(d) + hm

(***************************************************************************)
(* BookingsService.checkTimeSlotAvailability                               *)
(***************************************************************************)
BookingConflictMutant(b, startTime, endTime) ==
    \/ (b.startTime <= startTime /\ b.endTime >= startTime)
    \/ (b.startTime < endTime /\ b.endTime >= endTime)
    \/ (b.startTime >= startTime /\ b.endTime <= endTime)

\* the OR of the booking query: the three ways a stored row can conflict
BookingConflict(b, startTime, endTime) ==
    \/ (b.startTime <= startTime /\ b.endTime > startTime)
    \/ (b.startTime < endTime /\ b.endTime >= endTime)
    \/ (b.startTime >= startTime /\ b.endTime <= endTime)

\* where.id = { not: excludeBookingId }, applied only when an id is passed
ExcludeOk(b, excludeBookingId) ==
    excludeBookingId # NoId => b.id # excludeBookingId

conflictingBookingsMutant(bks, courtId, startTime, endTime, excludeBookingId) ==
    {b \in bks : /\ b.courtId = courtId
                 /\ b.status \in {"pending", "confirmed", "cancelled"}
                 /\ BookingConflict(b, startTime, endTime)
                 /\ ExcludeOk(b, excludeBookingId)}

conflictingBookings(bks, courtId, startTime, endTime, excludeBookingId) ==
    {b \in bks : /\ b.courtId = courtId
                 /\ b.status \in {"pending", "confirmed"}
                 /\ BookingConflict(b, startTime, endTime)
                 /\ ExcludeOk(b, excludeBookingId)}

findBlocksMutant(blks, courtId, bookingDate) ==
    {k \in blks : /\ k.courtId = courtId
                  /\ k.isActive
                  /\ Midnight(k.startDate) <= bookingDate
                  /\ Midnight(k.endDate) > bookingDate}

findBlocksAnyMutant(blks, courtId, bookingDate) ==
    {k \in blks : /\ k.courtId = courtId
                  /\ Midnight(k.startDate) <= bookingDate
                  /\ Midnight(k.endDate) >= bookingDate}

\* courtAvailability.findMany: active blocks whose date range holds the day
findBlocks(blks, courtId, bookingDate) ==
    {k \in blks : /\ k.courtId = courtId
                  /\ k.isActive
                  /\ Midnight(k.startDate) <= bookingDate
                  /\ Midnight(k.endDate) >= bookingDate}

\* !block.startTime || !block.endTime
WholeDay(block) == block.startTime = NoTime \/ block.endTime = NoTime

hasOverlapMutant(block, reqStartMinutes, reqEndMinutes) ==
    \/ (reqStartMinutes >= block.startTime /\ reqStartMinutes <= block.endTime)
    \/ (reqEndMinutes > block.startTime /\ reqEndMinutes <= block.endTime)
    \/ (reqStartMinutes <= block.startTime /\ reqEndMinutes >= block.endTime)

hasOverlap(block, reqStartMinutes, reqEndMinutes) ==
    \/ (reqStartMinutes >= block.startTime /\ reqStartMinutes < block.endTime)
    \/ (reqEndMinutes > block.startTime /\ reqEndMinutes <= block.endTime)
    \/ (reqStartMinutes <= block.startTime /\ reqEndMinutes >= block.endTime)

\* body of the loop over the blocks: TRUE when the block makes it return
BlockRejects(block, reqStartMinutes, reqEndMinutes) ==
    IF WholeDay(block) THEN TRUE
    ELSE hasOverlap(block, reqStartMinutes, reqEndMinutes)

checkTimeSlotAvailability(bks, blks, courtId, startTime, endTime, excludeBookingId) ==
    IF Cardinality(conflictingBookings(bks, courtId, startTime, endTime,
                                       excludeBookingId)) > 0
    THEN FALSE
    ELSE LET found == findBlocks(blks, courtId, StartOfDay(startTime))
         IN  IF found = {} THEN TRUE
             ELSE ~ \E block \in found :
                        BlockRejects(block, MinutesOfDay(startTime),
                                            MinutesOfDay(endTime))

(***************************************************************************)
(* CourtAvailabilityService.checkAvailability (field "available")          *)
(***************************************************************************)
availabilityCheck(blks, courtId, date, startTime, endTime) ==
    LET found == findBlocks(blks, courtId, Midnight(date))
    IN  IF found = {} THEN TRUE
        ELSE ~ \E block \in found : BlockRejects(block, startTime, endTime)

(***************************************************************************)
(* Rows                                                                    *)
(***************************************************************************)
Row(id) == CHOOSE b \in bookings : b.id = id

Ids == {b.id : b \in bookings}

\* optional column with a default in the DTO documentation
OrDefault(v, dflt) == IF v = Absent THEN dflt ELSE v

Init ==
    /\ bookings = {}
    /\ blocks = {}
    /\ nextId = 1
    /\ nextBlockId = 1
    /\ result = [op |-> "none", code |-> "init"]
    /\ pend = {}

\* the response of the last request served: the operation and its outcome
Response(op, code) == [op |-> op, code |-> code]

\* a request that fails: the tables are left alone
Reject(op, code) ==
    /\ result' = Response(op, code)
    /\ UNCHANGED <<bookings, blocks, nextId, nextBlockId, pend>>

(***************************************************************************)
(* BookingsService.create                                                  *)
(***************************************************************************)
\* the checks of create up to the insert, against the tables bks, blks
createCheck(bks, blks, userId, dto) ==
    IF dto.courtId \notin DOMAIN court THEN "NotFound"
    ELSE IF court[dto.courtId].complex # userId THEN "Forbidden"
    ELSE IF dto.clientId \notin DOMAIN client THEN "NotFound"
    ELSE IF client[dto.clientId].userId # userId THEN "Forbidden"
    ELSE IF dto.endTime <= dto.startTime THEN "BadRequest"
    ELSE IF ~checkTimeSlotAvailability(bks, blks, dto.courtId, dto.startTime,
                                       dto.endTime, NoId)
         THEN "Conflict"
    ELSE "ok"

createDataMutant(id, userId, dto) ==
    [id |-> id,
     courtId |-> dto.courtId,
     userId |-> userId,
     bookingDate |-> dto.bookingDate,
     startTime |-> dto.startTime,
     endTime |-> dto.endTime,
     status |-> OrDefault(dto.status, "pending"),
     paymentStatus |-> OrDefault(dto.status, "pending")]

\* data: { ...createBookingDto, bookingDate, startTime, endTime, userId }
createData(id, userId, dto) ==
    [id |-> id,
     courtId |-> dto.courtId,
     userId |-> userId,
     bookingDate |-> dto.bookingDate,
     startTime |-> dto.startTime,
     endTime |-> dto.endTime,
     status |-> OrDefault(dto.status, "pending"),
     paymentStatus |-> OrDefault(dto.paymentStatus, "pending")]

create(userId, dto) ==
    /\ pend = {}
    /\ LET r == createCheck(bookings, blocks, userId, dto)
       IN  IF r # "ok" THEN Reject("create", r)
           ELSE /\ nextId <= MaxBookings
                /\ bookings' = bookings \cup {createData(nextId, userId, dto)}
                /\ nextId' = nextId + 1
                /\ result' = Response("create", "ok")
                /\ UNCHANGED <<blocks, nextBlockId, pend>>

(***************************************************************************)
(* PublicBookingsController.createBooking                                  *)
(***************************************************************************)
publicCheckMutant(bks, blks, dto) ==
    LET startDateTime == SetHours(dto.date, dto.startTime)
        endDateTime == SetHours(dto.date, dto.endTime)
        duration == endDateTime - startDateTime
    IN  IF dto.courtId \notin DOMAIN court THEN "NotFound"
        ELSE IF duration <= 0 THEN "BadRequest"
        ELSE IF ~availabilityCheck(blks, dto.courtId, dto.date,
                                   dto.startTime, dto.endTime)
             THEN "BadRequest"
        ELSE IF conflictingBookings(bks, dto.courtId, startDateTime,
                                    endDateTime, NoId) # {}
             THEN "BadRequest"
        ELSE IF dto.isAppNative /\ dto.userId = Absent THEN "BadRequest"
        ELSE IF ~dto.isAppNative /\ dto.clientId = Absent THEN "BadRequest"
        ELSE "ok"

publicCheck(bks, blks, dto) ==
    LET startDateTime == SetHours(dto.date, dto.startTime)
        endDateTime == SetHours(dto.date, dto.endTime)
        duration == endDateTime - startDateTime
    IN  IF dto.courtId \notin DOMAIN court THEN "NotFound"
        ELSE IF ~court[dto.courtId].isActive THEN "BadRequest"
        ELSE IF duration <= 0 THEN "BadRequest"
        ELSE IF ~availabilityCheck(blks, dto.courtId, dto.date,
                                   dto.startTime, dto.endTime)
             THEN "BadRequest"
        ELSE IF conflictingBookings(bks, dto.courtId, startDateTime,
                                    endDateTime, NoId) # {}
             THEN "BadRequest"
        ELSE IF dto.isAppNative /\ dto.userId = Absent THEN "BadRequest"
        ELSE IF ~dto.isAppNative /\ dto.clientId = Absent THEN "BadRequest"
        ELSE "ok"

\* finalUserId
publicUserId(dto) ==
    IF dto.isAppNative THEN dto.userId
    ELSE IF dto.userId # Absent THEN dto.userId
    ELSE court[dto.courtId].complex

publicData(id, dto) ==
    [id |-> id,
     courtId |-> dto.courtId,
     userId |-> publicUserId(dto),
     bookingDate |-> dto.date,
     startTime |-> SetHours(dto.date, dto.startTime),
     endTime |-> SetHours(dto.date, dto.endTime),
     status |-> "pending",
     paymentStatus |-> "pending"]

createBooking(dto) ==
    /\ pend = {}
    /\ LET r == publicCheck(bookings, blocks, dto)
       IN  IF r # "ok" THEN Reject("createBooking", r)
           ELSE /\ nextId <= MaxBookings
                /\ bookings' = bookings \cup {publicData(nextId, dto)}
                /\ nextId' = nextId + 1
                /\ result' = Response("createBooking", "ok")
                /\ UNCHANGED <<blocks, nextBlockId, pend>>

publicAvailableMutant(bks, blks, courtId, date, startTime, endTime) ==
    conflictingBookings(bks, courtId, SetHours(date, startTime),
                        SetHours(date, endTime), NoId) = {}

\* steps 3 and 4 of createBooking: the blackout check of
\* CourtAvailabilityService, then the query for conflicting reservations
publicAvailable(bks, blks, courtId, date, startTime, endTime) ==
    /\ availabilityCheck(blks, courtId, date, startTime, endTime)
    /\ conflictingBookings(bks, courtId, SetHours(date, startTime),
                           SetHours(date, endTime), NoId) = {}

(***************************************************************************)
(* BookingsService.update                                                  *)
(***************************************************************************)
\* effective window: the supplied bound, else the stored one
effStart(booking, dto) ==
    IF dto.startTime # NoTime THEN dto.startTime ELSE booking.startTime

effEnd(booking, dto) ==
    IF dto.endTime # NoTime THEN dto.endTime ELSE booking.endTime

updateCheck(bks, blks, id, userId, dto) ==
    IF ~ \E b \in bks : b.id = id THEN "NotFound"
    ELSE LET booking == CHOOSE b \in bks : b.id = id
         IN  IF booking.userId # userId THEN "Forbidden"
             ELSE IF dto.startTime # NoTime \/ dto.endTime # NoTime
             THEN IF effEnd(booking, dto) <= effStart(booking, dto)
                  THEN "BadRequest"
                  ELSE IF ~checkTimeSlotAvailability(bks, blks, booking.courtId,
                              effStart(booking, dto), effEnd(booking, dto), id)
                  THEN "Conflict"
                  ELSE "ok"
             ELSE "ok"

\* data: { ...updateBookingDto } written over the stored row
updateData(booking, dto) ==
    [id |-> booking.id,
     courtId |-> IF dto.courtId # Absent THEN dto.courtId ELSE booking.courtId,
     userId |-> booking.userId,
     bookingDate |-> IF dto.bookingDate # NoTime THEN dto.bookingDate
                     ELSE booking.bookingDate,
     startTime |-> effStart(booking, dto),
     endTime |-> effEnd(booking, dto),
     status |-> IF dto.status # Absent THEN dto.status ELSE booking.status,
     paymentStatus |-> IF dto.paymentStatus # Absent THEN dto.paymentStatus
                       ELSE booking.paymentStatus]

\* prisma.booking.update: fails when the row is gone or the court id names no court
updateWrite(bks, id, dto) ==
    IF ~ \E b \in bks : b.id = id THEN "DbError"
    ELSE IF dto.courtId # Absent /\ dto.courtId \notin DOMAIN court THEN "DbError"
    ELSE "ok"

update(id, userId, dto) ==
    /\ pend = {}
    /\ LET r == updateCheck(bookings, blocks, id, userId, dto)
           w == updateWrite(bookings, id, dto)
       IN  IF r # "ok" THEN Reject("update", r)
           ELSE IF w # "ok" THEN Reject("update", w)
           ELSE /\ bookings' = (bookings \ {Row(id)})
                                  \cup {updateData(Row(id), dto)}
                /\ result' = Response("update", "ok")
                /\ UNCHANGED <<blocks, nextId, nextBlockId, pend>>

(***************************************************************************)
(* BookingsService.findOne, cancelBooking, remove                          *)
(***************************************************************************)
findOne(bks, id, userId) ==
    IF ~ \E b \in bks : b.id = id THEN "NotFound"
    ELSE IF (CHOOSE b \in bks : b.id = id).userId # userId THEN "Forbidden"
    ELSE "ok"

cancelCheckMutant(bks, id, userId) ==
    IF findOne(bks, id, userId) # "ok" THEN findOne(bks, id, userId)
    ELSE LET booking == CHOOSE b \in bks : b.id = id
         IN  IF booking.status = "cancelled" THEN "BadRequest"
             ELSE "ok"

cancelCheck(bks, id, userId) ==
    IF findOne(bks, id, userId) # "ok" THEN findOne(bks, id, userId)
    ELSE LET booking == CHOOSE b \in bks : b.id = id
         IN  IF booking.status = "cancelled" THEN "BadRequest"
             ELSE IF booking.status = "completed" THEN "BadRequest"
             ELSE "ok"

cancelDataMutant(booking) ==
    [booking EXCEPT !.status = "cancelled",
                    !.paymentStatus = IF booking.paymentStatus = "pending"
                                      THEN "pending" ELSE "refunded"]

cancelData(booking) ==
    [booking EXCEPT !.status = "cancelled",
                    !.paymentStatus = IF booking.paymentStatus = "paid"
                                      THEN "refunded" ELSE "pending"]

cancelBooking(id, userId) ==
    /\ pend = {}
    /\ LET r == cancelCheck(bookings, id, userId)
       IN  IF r # "ok" THEN Reject("cancelBooking", r)
           ELSE /\ bookings' = (bookings \ {Row(id)}) \cup {cancelData(Row(id))}
                /\ result' = Response("cancelBooking", "ok")
                /\ UNCHANGED <<blocks, nextId, nextBlockId, pend>>

remove(id, userId) ==
    /\ pend = {}
    /\ LET r == findOne(bookings, id, userId)
       IN  IF r # "ok" THEN Reject("remove", r)
           ELSE /\ bookings' = bookings \ {Row(id)}
                /\ result' = Response("remove", "ok")
                /\ UNCHANGED <<blocks, nextId, nextBlockId, pend>>

(***************************************************************************)
(* BookingsService.checkAvailability, for one window                       *)
(***************************************************************************)
checkAvailability(dto) ==
    /\ pend = {}
    /\ dto.startTime # NoTime /\ dto.endTime # NoTime
    /\ result' = Response("checkAvailability",
                     IF checkTimeSlotAvailability(bookings, blocks, dto.courtId,
                                                  dto.startTime, dto.endTime, NoId)
                     THEN "available" ELSE "unavailable")
    /\ UNCHANGED <<bookings, blocks, nextId, nextBlockId, pend>>

(***************************************************************************)
(* Slot projections.  Slots are cut in minutes; an instant of the model    *)
(* (a tick) is TickMinutes minutes long.                                   *)
(***************************************************************************)
SlotOpenHour == 6
SlotCloseHour == 23
SlotMinutes == 30
MinutesPerHour == 60
HoursPerDay == 24

TickMinutes == (HoursPerDay * MinutesPerHour) \div DayLen

\* getTime() of an instant, in minutes since midnight of day 0
ToMinutes(t) == t * TickMinutes

\* d = new Date(date); d.setHours(h, m, 0, 0), in minutes
SetHoursMinutes(date, h, m) == ToMinutes(Midnight(date)) + h * MinutesPerHour + m

\* "HH:mm" of a blackout: hours * 60 + minutes
BlockMinutes(block) ==
    [startTime |-> ToMinutes(block.startTime), endTime |-> ToMinutes(block.endTime)]

\* booking.findMany of a projection: active reservations of the court whose
\* bookingDate lies in the day
dayBookings(bks, courtId, date) ==
    {b \in bks : /\ b.courtId = courtId
                 /\ Midnight(b.bookingDate) >= Midnight(date)
                 /\ Midnight(b.bookingDate) < Midnight(date + 1)
                 /\ b.status \in {"pending", "confirmed"}}

\* select: { id, startTime, endTime }: the rows as the loop compares them,
\* their instants in minutes since midnight of day 0
fetched(rows) ==
    {[id |-> b.id,
      startTime |-> ToMinutes(b.startTime),
      endTime |-> ToMinutes(b.endTime)] : b \in rows}

\* the test of a slot [slotStart, slotEnd) against a fetched reservation
slotBooked(b, slotStart, slotEnd) ==
    \/ (slotStart >= b.startTime /\ slotStart < b.endTime)
    \/ (slotEnd > b.startTime /\ slotEnd <= b.endTime)
    \/ (slotStart <= b.startTime /\ slotEnd >= b.endTime)

\* bookings.find(...)?.id: the first reservation, by startTime, that holds
\* the start or the end of the slot
slotBookingId(found, slotStart, slotEnd) ==
    LET hit == {b \in found :
                  \/ (slotStart >= b.startTime /\ slotStart < b.endTime)
                  \/ (slotEnd > b.startTime /\ slotEnd <= b.endTime)}
    IN  IF hit = {} THEN NoId
        ELSE (CHOOSE b \in hit : \A o \in hit : b.startTime <= o.startTime).id

RECURSIVE slotsFrom(_, _, _)
\* while (currentTime < dayEnd) { ... currentTime = slotEnd }
slotsFrom(found, currentTime, dayEnd) ==
    IF currentTime < dayEnd
    THEN LET slotEnd == currentTime + SlotMinutes
             isBooked == \E b \in found : slotBooked(b, currentTime, slotEnd)
         IN  <<[startTime |-> currentTime,
                endTime |-> slotEnd,
                available |-> ~isBooked,
                bookingId |-> IF isBooked
                              THEN slotBookingId(found, currentTime, slotEnd)
                              ELSE NoId]>>
             \o slotsFrom(found, slotEnd, dayEnd)
    ELSE <<>>

getAvailableSlotsMutant(bks, courtId, date) ==
    slotsFrom(fetched(dayBookings(bks, courtId, date)),
              SetHoursMinutes(date, SlotOpenHour, 0),
              SetHoursMinutes(date, SlotCloseHour, 0) + 1)

\* BookingsService.getAvailableSlots: the slots of the answer
getAvailableSlots(bks, courtId, date) ==
    slotsFrom(fetched(dayBookings(bks, courtId, date)),
              SetHoursMinutes(date, SlotOpenHour, 0),
              SetHoursMinutes(date, SlotCloseHour, 0))

\* one slot of PublicCourtsController.getAvailableSlots
publicSlot(found, blks, date, hour, minute) ==
    LET slotStart == SetHoursMinutes(date, hour, minute)
        slotEnd == slotStart + SlotMinutes
        endMinute == minute + SlotMinutes
        endHour == IF endMinute >= MinutesPerHour THEN hour + 1 ELSE hour
        slotStartMinutes == hour * MinutesPerHour + minute
        slotEndMinutes == slotStartMinutes + SlotMinutes
        blocked == \E block \in blks :
                      \/ WholeDay(block)
                      \/ hasOverlap(BlockMinutes(block), slotStartMinutes,
                                    slotEndMinutes)
        booked == \E b \in found : slotBooked(b, slotStart, slotEnd)
    IN  [startTime |-> [h |-> hour, m |-> minute],
         endTime |-> [h |-> endHour, m |-> endMinute % MinutesPerHour],
         available |-> ~blocked /\ ~booked,
         reason |-> IF blocked THEN "blocked"
                    ELSE IF booked THEN "booked" ELSE Absent]

RECURSIVE minuteLoop(_, _, _, _, _)
\* for (let minute = 0; minute < 60; minute += 30)
minuteLoop(found, blks, date, hour, minute) ==
    IF minute < MinutesPerHour
    THEN <<publicSlot(found, blks, date, hour, minute)>>
         \o minuteLoop(found, blks, date, hour, minute + SlotMinutes)
    ELSE <<>>

RECURSIVE hourLoop(_, _, _, _)
\* for (let hour = 6; hour < 23; hour++)
hourLoop(found, blks, date, hour) ==
    IF hour < SlotCloseHour
    THEN minuteLoop(found, blks, date, hour, 0)
         \o hourLoop(found, blks, date, hour + 1)
    ELSE <<>>

\* PublicCourtsController.getAvailableSlots: the slots of the answer
publicGetAvailableSlots(bks, blks, courtId, date) ==
    hourLoop(fetched(dayBookings(bks, courtId, date)),
             findBlocks(blks, courtId, Midnight(date)), date, SlotOpenHour)

\* what an answer shows: every slot free, none, or some
SlotsShown(slots) ==
    IF \A i \in DOMAIN slots : slots[i].available THEN "all"
    ELSE IF \A i \in DOMAIN slots : ~slots[i].available THEN "none"
    ELSE "some"

\* PublicCourtsController.checkAvailability (field "available"): the
\* reservations are counted only when checkBookings is the string "true"
publicCheckAvailability(bks, blks, courtId, date, startTime, endTime, checkBookings) ==
    IF courtId \notin DOMAIN court THEN "NotFound"
    ELSE IF ~court[courtId].isActive THEN "unavailable"
    ELSE IF ~availabilityCheck(blks, courtId, date, startTime, endTime)
         THEN "unavailable"
    ELSE IF /\ checkBookings = "true"
            /\ Cardinality(conflictingBookings(bks, courtId,
                   SetHours(date, startTime), SetHours(date, endTime), NoId)) > 0
         THEN "unavailable"
    ELSE "available"

\* GET of PublicCourtsController.checkAvailability
publicCheckAvailabilityOf(courtId, date, startTime, endTime, checkBookings) ==
    /\ pend = {}
    /\ result' = Response("publicCheckAvailability",
                     publicCheckAvailability(bookings, blocks, courtId, date,
                                             startTime, endTime, checkBookings))
    /\ UNCHANGED <<bookings, blocks, nextId, nextBlockId, pend>>

\* the loop of BookingsService.getAvailableSlots over rows already
\* fetched for day 0: the answer next to the rows it was computed from
slotsOfFetched(found) ==
    /\ pend = {}
    /\ result' = Response("getAvailableSlots",
                     [rows |-> found,
                      slots |-> slotsFrom(found,
                                    SetHoursMinutes(0, SlotOpenHour, 0),
                                    SetHoursMinutes(0, SlotCloseHour, 0))])
    /\ UNCHANGED <<bookings, blocks, nextId, nextBlockId, pend>>

\* BookingsService.checkAvailability without startTime and endTime
checkAvailabilityOfDay(courtId, date) ==
    /\ pend = {}
    /\ result' = Response("checkAvailabilityOfDay",
                     SlotsShown(getAvailableSlots(bookings, courtId, date)))
    /\ UNCHANGED <<bookings, blocks, nextId, nextBlockId, pend>>

\* GET of PublicCourtsController.getAvailableSlots
publicSlotsOfDay(courtId, date) ==
    /\ pend = {}
    /\ IF courtId \notin DOMAIN court
       THEN result' = Response("publicSlotsOfDay", "NotFound")
       ELSE result' = Response("publicSlotsOfDay",
                         SlotsShown(publicGetAvailableSlots(bookings, blocks,
                                                            courtId, date)))
    /\ UNCHANGED <<bookings, blocks, nextId, nextBlockId, pend>>

(***************************************************************************)
(* CourtAvailabilityService: create, findOne, update, remove, toggleActive *)
(***************************************************************************)
Block(id) == CHOOSE k \in blocks : k.id = id

BlockIdsStored == {k.id : k \in blocks}

availabilityCreateCheck(userId, dto) ==
    IF dto.courtId \notin DOMAIN court THEN "NotFound"
    ELSE IF court[dto.courtId].complex # userId THEN "Forbidden"
    ELSE IF dto.endDate < dto.startDate THEN "BadRequest"
    ELSE IF /\ dto.startTime # NoTime /\ dto.endTime # NoTime
            /\ dto.endTime <= dto.startTime
         THEN "BadRequest"
    ELSE "ok"

\* a new block is active until it is toggled
availabilityData(id, dto) ==
    [id |-> id,
     courtId |-> dto.courtId,
     startDate |-> dto.startDate,
     endDate |-> dto.endDate,
     startTime |-> dto.startTime,
     endTime |-> dto.endTime,
     isActive |-> TRUE]

availabilityCreateMutant(userId, dto) ==
    /\ pend = {}
    /\ LET r == availabilityCreateCheck(userId, dto)
       IN  IF r # "ok" THEN Reject("availabilityCreate", r)
           ELSE /\ nextBlockId <= MaxBlocks
                /\ blocks' = blocks \cup {availabilityData(nextBlockId, dto)}
                /\ nextBlockId' = nextBlockId + 1
                /\ bookings' = {IF b.courtId = dto.courtId
                                   THEN [b EXCEPT !.status = "cancelled"]
                                   ELSE b : b \in bookings}
                /\ result' = Response("availabilityCreate", "ok")
                /\ UNCHANGED <<nextId, pend>>

availabilityCreate(userId, dto) ==
    /\ pend = {}
    /\ LET r == availabilityCreateCheck(userId, dto)
       IN  IF r # "ok" THEN Reject("availabilityCreate", r)
           ELSE /\ nextBlockId <= MaxBlocks
                /\ blocks' = blocks \cup {availabilityData(nextBlockId, dto)}
                /\ nextBlockId' = nextBlockId + 1
                /\ result' = Response("availabilityCreate", "ok")
                /\ UNCHANGED <<bookings, nextId, pend>>

availabilityFindOne(id, userId) ==
    IF id \notin BlockIdsStored THEN "NotFound"
    ELSE IF court[Block(id).courtId].complex # userId THEN "Forbidden"
    ELSE "ok"

availabilityUpdateCheck(id, userId, dto) ==
    IF availabilityFindOne(id, userId) # "ok" THEN availabilityFindOne(id, userId)
    ELSE IF /\ dto.startDate # NoTime /\ dto.endDate # NoTime
            /\ dto.endDate < dto.startDate
         THEN "BadRequest"
    ELSE IF /\ dto.startTime # NoTime /\ dto.endTime # NoTime
            /\ dto.endTime <= dto.startTime
         THEN "BadRequest"
    ELSE "ok"

availabilityUpdateData(block, dto) ==
    [block EXCEPT
       !.startDate = IF dto.startDate # NoTime THEN dto.startDate ELSE @,
       !.endDate = IF dto.endDate # NoTime THEN dto.endDate ELSE @,
       !.startTime = IF dto.startTime # NoTime THEN dto.startTime ELSE @,
       !.endTime = IF dto.endTime # NoTime THEN dto.endTime ELSE @]

availabilityUpdate(id, userId, dto) ==
    /\ pend = {}
    /\ LET r == availabilityUpdateCheck(id, userId, dto)
       IN  IF r # "ok" THEN Reject("availabilityUpdate", r)
           ELSE /\ blocks' = (blocks \ {Block(id)})
                                \cup {availabilityUpdateData(Block(id), dto)}
                /\ result' = Response("availabilityUpdate", "ok")
                /\ UNCHANGED <<bookings, nextId, nextBlockId, pend>>

availabilityRemove(id, userId) ==
    /\ pend = {}
    /\ LET r == availabilityFindOne(id, userId)
       IN  IF r # "ok" THEN Reject("availabilityRemove", r)
           ELSE /\ blocks' = blocks \ {Block(id)}
                /\ result' = Response("availabilityRemove", "ok")
                /\ UNCHANGED <<bookings, nextId, nextBlockId, pend>>

toggleActive(id, userId) ==
    /\ pend = {}
    /\ LET r == availabilityFindOne(id, userId)
       IN  IF r # "ok" THEN Reject("toggleActive", r)
           ELSE /\ blocks' = (blocks \ {Block(id)})
                       \cup {[Block(id) EXCEPT !.isActive = ~Block(id).isActive]}
                /\ result' = Response("toggleActive", "ok")
                /\ UNCHANGED <<bookings, nextId, nextBlockId, pend>>

(***************************************************************************)
(* Request bodies                                                          *)
(***************************************************************************)
CreateDto(c, k, d, s, e, st, ps) ==
    [courtId |-> c, clientId |-> k, bookingDate |-> d, startTime |-> s,
     endTime |-> e, status |-> st, paymentStatus |-> ps]

UpdateDto(c, d, s, e, st, ps) ==
    [courtId |-> c, bookingDate |-> d, startTime |-> s, endTime |-> e,
     status |-> st, paymentStatus |-> ps]

PublicDto(c, d, s, e, native, u, k) ==
    [courtId |-> c, date |-> d, startTime |-> s, endTime |-> e,
     isAppNative |-> native, userId |-> u, clientId |-> k]

(***************************************************************************)
(* Spec: the lifecycle of reservations, one request at a time, on court    *)
(* c1 with instants 0..LifeHorizon.                                        *)
(***************************************************************************)
LifeInstants == 0..LifeHorizon

LifeCreateDtos ==
    {CreateDto("c1", "k1", s \div DayLen, s, e, Absent, Absent) :
        s \in LifeInstants, e \in LifeInstants}
    \cup {CreateDto("c1", "k1", 0, 0, 1, st, ps) :
        st \in StatusSet \cup {Absent}, ps \in PaymentStatusSet \cup {Absent}}
    \cup {CreateDto("c0", "k1", 0, 0, 1, Absent, Absent),
          CreateDto("c1", "k0", 0, 0, 1, Absent, Absent),
          CreateDto("c1", "k2", 0, 0, 1, Absent, Absent)}

LifeUpdateDtos ==
    {UpdateDto(Absent, NoTime, s, e, Absent, Absent) :
        s \in LifeInstants \cup {NoTime}, e \in LifeInstants \cup {NoTime}}
    \cup {UpdateDto(Absent, NoTime, NoTime, NoTime, st, ps) :
        st \in StatusSet \cup {Absent}, ps \in {Absent, "paid"}}

LifePublicDtos ==
    {PublicDto(c, 0, s, e, FALSE, Absent, k) :
        c \in {"c1", "c0"}, s \in LifeInstants, e \in LifeInstants,
        k \in {"k1", Absent}}

BookingIds == 1..MaxBookings

Next ==
    \/ \E userId \in Users, dto \in LifeCreateDtos : create(userId, dto)
    \/ \E dto \in LifePublicDtos : createBooking(dto)
    \/ \E id \in BookingIds, userId \in Users, dto \in LifeUpdateDtos :
           update(id, userId, dto)
    \/ \E id \in BookingIds, userId \in Users : cancelBooking(id, userId)
    \/ \E id \in BookingIds, userId \in Users : remove(id, userId)

Spec == Init /\ [][Next]_vars

(***************************************************************************)
(* SpecLife: reservations created with every status and paymentStatus,     *)
(* updated, cancelled and deleted, one request at a time.                  *)
(***************************************************************************)
NextLife ==
    \/ \E userId \in Users, dto \in LifeCreateDtos :
           nextId <= MaxLifeBookings /\ create(userId, dto)
    \/ \E dto \in LifePublicDtos :
           nextId <= MaxLifeBookings /\ createBooking(dto)
    \/ \E id \in BookingIds, userId \in Users, dto \in LifeUpdateDtos :
           update(id, userId, dto)
    \/ \E id \in BookingIds, userId \in Users : cancelBooking(id, userId)
    \/ \E id \in BookingIds, userId \in Users : remove(id, userId)

SpecLife == Init /\ [][NextLife]_vars

(***************************************************************************)
(* SpecConc: create requests in flight together.  A create request reads   *)
(* (court, client, conflicting bookings, blocks), is suspended, and        *)
(* inserts when it resumes; other requests run in between.                 *)
(***************************************************************************)
ConcHorizon == 2

ConcInstants == 0..ConcHorizon

ConcCreateDtos ==
    {CreateDto("c1", "k1", s \div DayLen, s, e, Absent, Absent) :
        s \in ConcInstants, e \in ConcInstants}

ConcPublicDtos ==
    {PublicDto("c1", 0, s, e, FALSE, Absent, "k1") :
        s \in ConcInstants, e \in ConcInstants}

\* a free slot for a request in flight
FreeRid == CHOOSE n \in 1..(MaxInflight + 1) : n \notin {p.rid : p \in pend}

\* BookingsService.create up to the await of checkTimeSlotAvailability
createBegin(userId, dto) ==
    /\ Cardinality(pend) < MaxInflight
    /\ LET r == createCheck(bookings, blocks, userId, dto)
       IN  IF r # "ok"
           THEN /\ result' = Response("create", r)
                /\ UNCHANGED <<bookings, blocks, nextId, nextBlockId, pend>>
           ELSE /\ pend' = pend \cup {[rid |-> FreeRid, op |-> "create",
                                       row |-> createData(NoId, userId, dto)]}
                /\ UNCHANGED <<bookings, blocks, nextId, nextBlockId, result>>

\* PublicBookingsController.createBooking up to the insert
publicBegin(dto) ==
    /\ Cardinality(pend) < MaxInflight
    /\ LET r == publicCheck(bookings, blocks, dto)
       IN  IF r # "ok"
           THEN /\ result' = Response("createBooking", r)
                /\ UNCHANGED <<bookings, blocks, nextId, nextBlockId, pend>>
           ELSE /\ pend' = pend \cup {[rid |-> FreeRid, op |-> "createBooking",
                                       row |-> publicData(NoId, dto)]}
                /\ UNCHANGED <<bookings, blocks, nextId, nextBlockId, result>>

\* prisma.booking.create of a request in flight
insertRow(p) ==
    /\ p \in pend
    /\ nextId <= MaxBookings
    /\ bookings' = bookings \cup {[p.row EXCEPT !.id = nextId]}
    /\ nextId' = nextId + 1
    /\ pend' = pend \ {p}
    /\ result' = Response(p.op, "ok")
    /\ UNCHANGED <<blocks, nextBlockId>>

NextConc ==
    \/ \E dto \in ConcCreateDtos : createBegin("u1", dto)
    \/ \E dto \in ConcPublicDtos : publicBegin(dto)
    \/ \E p \in pend : insertRow(p)

SpecConc == Init /\ [][NextConc]_vars

(***************************************************************************)
(* SpecRace: window updates in flight together with each other and with a  *)
(* create.  An update reads (the row, conflicting bookings, blocks), is    *)
(* suspended, and writes when it resumes.  At most one create is in flight *)
(* at a time.                                                              *)
(***************************************************************************)
RaceUpdateDtos ==
    {UpdateDto(Absent, NoTime, s, e, Absent, Absent) :
        s \in ConcInstants \cup {NoTime}, e \in ConcInstants \cup {NoTime}}

\* BookingsService.update up to the await of prisma.booking.update
updateBegin(id, userId, dto) ==
    /\ Cardinality(pend) < MaxInflight
    /\ LET r == updateCheck(bookings, blocks, id, userId, dto)
       IN  IF r # "ok"
           THEN /\ result' = Response("update", r)
                /\ UNCHANGED <<bookings, blocks, nextId, nextBlockId, pend>>
           ELSE /\ pend' = pend \cup {[rid |-> FreeRid, op |-> "update",
                                       id |-> id, dto |-> dto]}
                /\ UNCHANGED <<bookings, blocks, nextId, nextBlockId, result>>

\* prisma.booking.update of an update in flight
updateEnd(p) ==
    /\ p \in pend
    /\ p.op = "update"
    /\ pend' = pend \ {p}
    /\ LET w == updateWrite(bookings, p.id, p.dto)
       IN  IF w # "ok"
           THEN /\ result' = Response("update", w)
                /\ UNCHANGED <<bookings, blocks, nextId, nextBlockId>>
           ELSE /\ bookings' = (bookings \ {Row(p.id)})
                                  \cup {updateData(Row(p.id), p.dto)}
                /\ result' = Response("update", "ok")
                /\ UNCHANGED <<blocks, nextId, nextBlockId>>

NextRace ==
    \/ \E dto \in ConcCreateDtos :
           /\ \A p \in pend : p.op = "update"
           /\ createBegin("u1", dto)
    \/ \E p \in pend : p.op # "update" /\ insertRow(p)
    \/ \E id \in BookingIds, dto \in RaceUpdateDtos : updateBegin(id, "u1", dto)
    \/ \E p \in pend : updateEnd(p)

SpecRace == Init /\ [][NextRace]_vars

(***************************************************************************)
(* Toggle requests in flight together: each reads the blackout (findOne),  *)
(* then writes the negation of the flag it read.                           *)
(***************************************************************************)
\* CourtAvailabilityService.toggleActive up to the await of findOne
toggleBegin(id, userId) ==
    /\ Cardinality(pend) < MaxInflight
    /\ LET r == availabilityFindOne(id, userId)
       IN  IF r # "ok"
           THEN /\ result' = Response("toggleActive", r)
                /\ UNCHANGED <<bookings, blocks, nextId, nextBlockId, pend>>
           ELSE /\ pend' = pend \cup {[rid |-> FreeRid, op |-> "toggleActive",
                                       id |-> id,
                                       isActive |-> Block(id).isActive]}
                /\ UNCHANGED <<bookings, blocks, nextId, nextBlockId, result>>

\* prisma.courtAvailability.update of a toggle in flight:
\* data: { isActive: !availability.isActive }
toggleEnd(p) ==
    /\ p \in pend
    /\ p.op = "toggleActive"
    /\ pend' = pend \ {p}
    /\ IF p.id \notin BlockIdsStored
       THEN /\ result' = Response("toggleActive", "DbError")
            /\ UNCHANGED <<bookings, blocks, nextId, nextBlockId>>
       ELSE /\ blocks' = (blocks \ {Block(p.id)})
                   \cup {[Block(p.id) EXCEPT !.isActive = ~p.isActive]}
            /\ result' = Response("toggleActive", "ok")
            /\ UNCHANGED <<bookings, nextId, nextBlockId>>

(***************************************************************************)
(* Request bodies: blackouts over the days 0..MaxDay, candidate windows    *)
(* over the days 0..MaxDay + 1                                             *)
(***************************************************************************)
CheckDto(c, s, e) == [courtId |-> c, startTime |-> s, endTime |-> e]

BlockDto(c, sd, ed, st, et) ==
    [courtId |-> c, startDate |-> sd, endDate |-> ed, startTime |-> st,
     endTime |-> et]

Days == 0..MaxDay

\* the days on which a candidate may start
CandidateDays == 0..(MaxDay + 1)

\* instants at which a reservation may start
Starts == 0..((MaxDay + 2) * DayLen - 1)

\* windows of at most MaxDur ticks
Windows == {w \in Starts \X (1..((MaxDay + 2) * DayLen + MaxDur)) :
               w[2] > w[1] /\ w[2] <= w[1] + MaxDur}

\* "HH:mm"
ClockTimes == 0..(DayLen - 1)

BlockIds == 1..MaxBlocks

(***************************************************************************)
(* SpecAvail: blackouts on court c1 -- without time bounds over a range of *)
(* days, with time bounds on one day -- next to a reservation that starts  *)
(* at midnight of day 0, one request at a time.                            *)
(***************************************************************************)
AvailCreateDtos ==
    {CreateDto("c1", "k1", 0, 0, e, Absent, Absent) : e \in 0..MaxDur}

AvailCheckDtos == {CheckDto("c1", w[1], w[2]) : w \in Windows}

AvailBlockDtos ==
    {BlockDto("c1", sd, ed, NoTime, NoTime) : sd \in Days, ed \in Days}
    \cup {BlockDto("c1", d, d, st, et) :
            d \in Days, st \in ClockTimes, et \in ClockTimes}

\* a blackout is moved to one day
AvailBlockUpdateDtos ==
    {BlockDto(Absent, d, d, NoTime, NoTime) : d \in Days}

NextAvail ==
    \/ \E dto \in AvailCreateDtos :
           nextId <= MaxAvailBookings /\ create("u1", dto)
    \/ \E dto \in AvailCheckDtos : checkAvailability(dto)
    \/ \E dto \in AvailBlockDtos : availabilityCreate("u1", dto)
    \/ \E id \in BlockIds, userId \in Users, dto \in AvailBlockUpdateDtos :
           availabilityUpdate(id, userId, dto)
    \/ \E id \in BlockIds : availabilityRemove(id, "u1")
    \/ \E id \in BlockIds : toggleActive(id, "u1")

SpecAvail == Init /\ [][NextAvail]_vars

(***************************************************************************)
(* SpecWindow: reservations of 1..MaxDur ticks that start at 0..MaxDur on  *)
(* court c1, created, moved and cancelled, one request at a time.          *)
(***************************************************************************)
WindowInstants == 0..(2 * MaxDur)

WindowCreateDtos ==
    {CreateDto("c1", "k1", s \div DayLen, s, s + n, Absent, Absent) :
        s \in 0..MaxDur, n \in 1..MaxDur}

WindowUpdateDtos ==
    {UpdateDto(Absent, NoTime, s, e, Absent, Absent) :
        s \in (0..MaxDur) \cup {NoTime}, e \in (0..MaxDur) \cup {NoTime}}

WindowCheckDtos ==
    {CheckDto("c1", s, e) : s \in WindowInstants, e \in WindowInstants}

NextWindow ==
    \/ \E dto \in WindowCreateDtos :
           nextId <= MaxAvailBookings /\ create("u1", dto)
    \/ \E id \in BookingIds, dto \in WindowUpdateDtos : update(id, "u1", dto)
    \/ \E id \in BookingIds : cancelBooking(id, "u1")
    \/ \E dto \in WindowCheckDtos : checkAvailability(dto)

SpecWindow == Init /\ [][NextWindow]_vars

(***************************************************************************)
(* SpecDesk: both owners at work on both courts, one request at a time:    *)
(* dashboard creates for any court and client, public creates on behalf of *)
(* any user, updates that name a court.                                    *)
(***************************************************************************)
DeskCreateDtos ==
    {CreateDto(c, k, 0, s, e, Absent, Absent) :
        c \in {"c1", "c2", "c0"}, k \in {"k1", "k2", "k0"},
        s \in LifeInstants, e \in LifeInstants}

DeskPublicDtos ==
    {PublicDto(c, 0, s, e, native, u, k) :
        c \in {"c1", "c0"}, s \in LifeInstants, e \in LifeInstants,
        native \in BOOLEAN, u \in {Absent, "u2"}, k \in {Absent, "k1"}}

DeskUpdateDtos ==
    {UpdateDto(c, NoTime, s, e, Absent, Absent) :
        c \in {Absent, "c1", "c2", "c0"},
        s \in LifeInstants \cup {NoTime}, e \in LifeInstants \cup {NoTime}}

NextDesk ==
    \/ \E userId \in Users, dto \in DeskCreateDtos : create(userId, dto)
    \/ \E dto \in DeskPublicDtos : createBooking(dto)
    \/ \E id \in BookingIds, userId \in Users, dto \in DeskUpdateDtos :
           update(id, userId, dto)
    \/ \E id \in BookingIds, userId \in Users : cancelBooking(id, userId)
    \/ \E id \in BookingIds, userId \in Users : remove(id, userId)

SpecDesk == Init /\ [][NextDesk]_vars

(***************************************************************************)
(* SpecPublic: public creates with every "HH:mm" window of day 0 on court  *)
(* c1, next to blackouts of that day, one request at a time.               *)
(***************************************************************************)
PublicCreateDtos ==
    {PublicDto("c1", 0, st, et, FALSE, Absent, "k1") :
        st \in ClockTimes, et \in ClockTimes}

PublicBlockDtos ==
    {BlockDto("c1", 0, 0, NoTime, NoTime)}
    \cup {BlockDto("c1", 0, 0, st, et) : st \in ClockTimes, et \in ClockTimes}

NextPublic ==
    \/ \E dto \in PublicCreateDtos :
           /\ nextId <= MaxAvailBookings
                \/ publicCheck(bookings, blocks, dto) # "ok"
           /\ createBooking(dto)
    \/ \E dto \in PublicBlockDtos : availabilityCreate("u1", dto)
    \/ \E id \in BlockIds : availabilityRemove(id, "u1")
    \/ \E id \in BlockIds : toggleActive(id, "u1")

SpecPublic == Init /\ [][NextPublic]_vars

(***************************************************************************)
(* SpecReuse: reservations on court c1 that are created (pending or        *)
(* already completed), moved, cancelled and deleted, next to a blackout    *)
(* that is switched on and off, one request at a time.                     *)
(***************************************************************************)
ReuseCreateDtos ==
    {CreateDto("c1", "k1", s \div DayLen, s, e, st, Absent) :
        s \in LifeInstants, e \in LifeInstants, st \in {Absent, "completed"}}

ReuseUpdateDtos ==
    {UpdateDto(Absent, NoTime, s, e, Absent, Absent) :
        s \in LifeInstants \cup {NoTime}, e \in LifeInstants \cup {NoTime}}

NextReuse ==
    \/ \E dto \in ReuseCreateDtos : create("u1", dto)
    \/ \E id \in BookingIds, dto \in ReuseUpdateDtos : update(id, "u1", dto)
    \/ \E id \in BookingIds : cancelBooking(id, "u1")
    \/ \E id \in BookingIds : remove(id, "u1")
    \/ availabilityCreate("u1", BlockDto("c1", 0, MaxDay, NoTime, NoTime))
    \/ \E id \in BlockIds : toggleActive(id, "u1")

SpecReuse == Init /\ [][NextReuse]_vars

(***************************************************************************)
(* SpecSlots: the two slot projections asked for every day, next to a      *)
(* reservation that starts at midnight of day 0 and to blackouts of one    *)
(* day, whole or one tick long, one request at a time.                     *)
(***************************************************************************)
SlotBlockDtos ==
    {BlockDto("c1", d, d, NoTime, NoTime) : d \in Days}
    \cup {BlockDto("c1", d, d, st, st + 1) :
            d \in Days, st \in ClockTimes \ {DayLen - 1}}

NextSlots ==
    \/ \E dto \in AvailCreateDtos :
           nextId <= MaxAvailBookings /\ create("u1", dto)
    \/ \E dto \in SlotBlockDtos : availabilityCreate("u1", dto)
    \/ \E id \in BlockIds : toggleActive(id, "u1")
    \/ \E d \in CandidateDays : checkAvailabilityOfDay("c1", d)
    \/ \E c \in {"c1", "c0"}, d \in CandidateDays : publicSlotsOfDay(c, d)

SpecSlots == Init /\ [][NextSlots]_vars

(***************************************************************************)
(* SpecBlocks: the blackout registry of court c1 by itself: blackouts with *)
(* and without time bounds, updates that supply any subset of the four     *)
(* date and time fields, one request at a time.                            *)
(***************************************************************************)
RegistryCreateDtos ==
    {BlockDto("c1", sd, ed, st, et) :
        sd \in Days, ed \in Days,
        st \in ClockTimes \cup {NoTime}, et \in ClockTimes \cup {NoTime}}

RegistryUpdateDtos ==
    {BlockDto(Absent, sd, ed, st, et) :
        sd \in Days \cup {NoTime}, ed \in Days \cup {NoTime},
        st \in ClockTimes \cup {NoTime}, et \in ClockTimes \cup {NoTime}}

NextBlocks ==
    \/ \E dto \in RegistryCreateDtos : availabilityCreate("u1", dto)
    \/ \E id \in BlockIds, dto \in RegistryUpdateDtos :
           availabilityUpdate(id, "u1", dto)
    \/ \E id \in BlockIds : availabilityRemove(id, "u1")
    \/ \E id \in BlockIds : toggleActive(id, "u1")

SpecBlocks == Init /\ [][NextBlocks]_vars

(***************************************************************************)
(* SpecCalendar: the public calendar of court c1 next to a reservation and *)
(* to blackouts whose time bounds are edited one at a time.                *)
(***************************************************************************)
CalendarBlockDtos ==
    {BlockDto("c1", d, d, st, et) :
        d \in Days, st \in ClockTimes \cup {NoTime},
        et \in ClockTimes \cup {NoTime}}

CalendarUpdateDtos ==
    {BlockDto(Absent, NoTime, NoTime, st, et) :
        st \in ClockTimes \cup {NoTime}, et \in ClockTimes \cup {NoTime}}

NextCalendar ==
    \/ \E dto \in AvailCreateDtos :
           nextId <= MaxAvailBookings /\ create("u1", dto)
    \/ \E dto \in CalendarBlockDtos : availabilityCreate("u1", dto)
    \/ \E id \in BlockIds, dto \in CalendarUpdateDtos :
           availabilityUpdate(id, "u1", dto)
    \/ \E id \in BlockIds : toggleActive(id, "u1")
    \/ \E d \in CandidateDays : publicSlotsOfDay("c1", d)

SpecCalendar == Init /\ [][NextCalendar]_vars

(***************************************************************************)
(* SpecDates: reservations of court c1 whose bookingDate is any day and    *)
(* whose window starts on day 0 and may run past midnight, next to both    *)
(* slot projections.                                                       *)
(***************************************************************************)
DatesCreateDtos ==
    {CreateDto("c1", "k1", d, s, s + n, Absent, Absent) :
        d \in Days, s \in ClockTimes, n \in 1..MaxDur}

NextDates ==
    \/ \E dto \in DatesCreateDtos :
           nextId <= MaxAvailBookings /\ create("u1", dto)
    \/ \E id \in BookingIds : cancelBooking(id, "u1")
    \/ \E d \in CandidateDays : checkAvailabilityOfDay("c1", d)
    \/ \E d \in CandidateDays : publicSlotsOfDay("c1", d)

SpecDates == Init /\ [][NextDates]_vars

(***************************************************************************)
(* SpecProbe: the public availability probe on the courts c1 (active), c3  *)
(* (switched off) and c0 (unknown), with and without checkBookings, next   *)
(* to a reservation and to blackouts of court c1.                          *)
(***************************************************************************)
CheckBookingsValues == {Absent, "true", "false"}

NextProbe ==
    \/ \E dto \in AvailCreateDtos :
           nextId <= MaxAvailBookings /\ create("u1", dto)
    \/ \E dto \in SlotBlockDtos : availabilityCreate("u1", dto)
    \/ \E id \in BlockIds : toggleActive(id, "u1")
    \/ \E c \in {"c1", "c3", "c0"}, d \in Days, st \in ClockTimes,
          et \in ClockTimes, cb \in CheckBookingsValues :
           publicCheckAvailabilityOf(c, d, st, et, cb)

SpecProbe == Init /\ [][NextProbe]_vars

(***************************************************************************)
(* SpecNight: candidates of court c1 that start on day 0 and last up to a  *)
(* whole day, so that they may end at or after midnight, next to blackouts *)
(* with time bounds.                                                       *)
(***************************************************************************)
NightWindows ==
    {w \in ClockTimes \X (1..(2 * DayLen - 1)) :
        w[2] > w[1] /\ w[2] <= w[1] + DayLen}

NightCreateDtos ==
    {CreateDto("c1", "k1", 0, w[1], w[2], Absent, Absent) : w \in NightWindows}

NightCheckDtos == {CheckDto("c1", w[1], w[2]) : w \in NightWindows}

NightBlockDtos ==
    {BlockDto("c1", 0, d, st, et) :
        d \in Days, st \in ClockTimes, et \in ClockTimes}

NextNight ==
    \/ \E dto \in NightCreateDtos :
           nextId <= MaxAvailBookings /\ create("u1", dto)
    \/ \E dto \in NightCheckDtos : checkAvailability(dto)
    \/ \E dto \in NightBlockDtos : availabilityCreate("u1", dto)
    \/ \E id \in BlockIds : toggleActive(id, "u1")

SpecNight == Init /\ [][NextNight]_vars

(***************************************************************************)
(* SpecToggle: toggle requests of both users on the blackouts of court c1, *)
(* in flight together.                                                     *)
(***************************************************************************)
ToggleBlockDtos ==
    {BlockDto("c1", sd, ed, NoTime, NoTime) : sd \in Days, ed \in Days}

NextToggle ==
    \/ \E dto \in ToggleBlockDtos : availabilityCreate("u1", dto)
    \/ \E id \in BlockIds, userId \in Users : toggleBegin(id, userId)
    \/ \E p \in pend : toggleEnd(p)

SpecToggle == Init /\ [][NextToggle]_vars

(***************************************************************************)
(* SpecGate: public creates, complete and with start < end, on the courts  *)
(* c1 (active) and c3 (switched off), next to the owner's own creates on   *)
(* c3, to cancellations and to deletions.                                  *)
(***************************************************************************)
GateWindows == {w \in ClockTimes \X ClockTimes : w[1] < w[2]}

GatePublicDtos ==
    {PublicDto(c, d, w[1], w[2], FALSE, Absent, "k1") :
        c \in {"c1", "c3"}, d \in Days, w \in GateWindows}

GateCreateDtos ==
    {CreateDto("c3", "k1", d, Midnight(d) + s, Midnight(d) + s + 1, st, Absent) :
        d \in Days, s \in ClockTimes, st \in {Absent, "confirmed"}}

NextGate ==
    \/ \E dto \in GatePublicDtos :
           /\ nextId <= MaxAvailBookings
                \/ publicCheck(bookings, blocks, dto) # "ok"
           /\ createBooking(dto)
    \/ \E dto \in GateCreateDtos :
           nextId <= MaxAvailBookings /\ create("u1", dto)
    \/ \E id \in BookingIds : remove(id, "u1")
    \/ \E id \in BookingIds : cancelBooking(id, "u1")

SpecGate == Init /\ [][NextGate]_vars

(***************************************************************************)
(* SpecFine: the dashboard slot loop over reservations given to a third of *)
(* a slot: one or two fetched rows, not overlapping each other, inside the *)
(* first two slots of day 0.                                               *)
(***************************************************************************)
FineStep == SlotMinutes \div DayLen

FineInstants ==
    {SetHoursMinutes(0, SlotOpenHour, 0) + n * FineStep : n \in 0..(2 * DayLen)}

FineRows(id) ==
    {[id |-> id, startTime |-> w[1], endTime |-> w[2]] :
        w \in {v \in FineInstants \X FineInstants : v[1] < v[2]}}

FineFetched ==
    {{}} \cup {{a} : a \in FineRows(1)}
         \cup {{p[1], p[2]} :
                 p \in {q \in FineRows(1) \X FineRows(2) :
                          q[2].endTime <= q[1].startTime
                            \/ q[1].endTime <= q[2].startTime}}

NextFine == \E found \in FineFetched : slotsOfFetched(found)

SpecFine == Init /\ [][NextFine]_vars

(***************************************************************************)
(* Properties of the reservation lifecycle                                 *)
(***************************************************************************)
Overlaps(aStart, aEnd, bStart, bEnd) == aStart < bEnd /\ bStart < aEnd

IsActive(b) == b.status \in ActiveStatus

\* the row that a step writes for id
RowAfter(id) == CHOOSE b \in bookings' : b.id = id

\* C1: no two active reservations on the same court have overlapping
\* half-open windows, after any sequence of successful booking requests
\* served one at a time.
NoDoubleBooking ==
    \A a \in bookings, b \in bookings :
        (a.id # b.id /\ a.courtId = b.courtId /\ IsActive(a) /\ IsActive(b))
            => ~Overlaps(a.startTime, a.endTime, b.startTime, b.endTime)

\* C4: a step changes the status of a reservation only along
\* pending -> confirmed, confirmed -> completed, pending|confirmed ->
\* cancelled; nothing leaves cancelled or completed.
StatusTransitions ==
    {<<"pending", "confirmed">>, <<"confirmed", "completed">>,
     <<"pending", "cancelled">>, <<"confirmed", "cancelled">>}

OnlyLegalTransitions ==
    [][\A b \in bookings :
          (b.id \in {n.id : n \in bookings'} /\ RowAfter(b.id).status # b.status)
              => <<b.status, RowAfter(b.id).status>> \in StatusTransitions]_vars

\* C5 as stated: every reservation inserted by a create request (dashboard
\* or public) is stored with status pending and paymentStatus pending.
CreatedAlwaysPending ==
    [][\A n \in bookings' :
          n.id \notin Ids
              => n.status = "pending" /\ n.paymentStatus = "pending"]_vars

\* C5 amended: a reservation inserted by BookingsService.create carries the
\* status and paymentStatus of the request body, each pending when the body
\* omits it; one inserted by the public createBooking is always pending with
\* paymentStatus pending.
CreatedStatusFromBody ==
    [][/\ result' = Response("create", "ok") =>
            \A userId \in Users, dto \in LifeCreateDtos :
                create(userId, dto)
                    => /\ nextId \in {n.id : n \in bookings'}
                       /\ RowAfter(nextId).status =
                            (IF dto.status = Absent THEN "pending"
                             ELSE dto.status)
                       /\ RowAfter(nextId).paymentStatus =
                            (IF dto.paymentStatus = Absent THEN "pending"
                             ELSE dto.paymentStatus)
                       /\ bookings' \ {RowAfter(nextId)} = bookings
       /\ result' = Response("createBooking", "ok") =>
            \A dto \in LifePublicDtos :
                createBooking(dto)
                    => /\ nextId \in {n.id : n \in bookings'}
                       /\ RowAfter(nextId).status = "pending"
                       /\ RowAfter(nextId).paymentStatus = "pending"
                       /\ bookings' \ {RowAfter(nextId)} = bookings]_vars

\* a create that was given a status and a paymentStatus has been served
CreatedWithGivenStatus ==
    /\ result = Response("create", "ok")
    /\ \E b \in bookings : b.status = "confirmed" /\ b.paymentStatus = "paid"

\* C6: cancelBooking on a cancelled or completed reservation fails, with the
\* invalid-state error (400) when the caller passes the ownership check of
\* findOne, and leaves every reservation as it was.
CancelTerminalFails ==
    [][result'.op = "cancelBooking" =>
          \A id \in BookingIds, userId \in Users :
              (/\ id \in Ids
               /\ Row(id).status \in {"cancelled", "completed"}
               /\ cancelBooking(id, userId))
                  => /\ result'.code # "ok"
                     /\ (Row(id).userId = userId => result'.code = "BadRequest")
                     /\ bookings' = bookings]_vars

\* cancelBooking has just been refused on a completed reservation
CancelRefusedOnCompleted ==
    /\ result = Response("cancelBooking", "BadRequest")
    /\ \E b \in bookings : b.status = "completed"
    /\ \A b \in bookings : b.status # "cancelled"

\* C7: a successful cancelBooking acts on a pending or confirmed
\* reservation, sets its status to cancelled and its paymentStatus to
\* refunded if it was paid, to pending otherwise.
CancelEffect ==
    [][result' = Response("cancelBooking", "ok") =>
          \A id \in BookingIds, userId \in Users :
              cancelBooking(id, userId)
                  => /\ id \in Ids
                     /\ IsActive(Row(id))
                     /\ id \in {n.id : n \in bookings'}
                     /\ RowAfter(id).status = "cancelled"
                     /\ RowAfter(id).paymentStatus =
                          (IF Row(id).paymentStatus = "paid" THEN "refunded"
                           ELSE "pending")]_vars

\* a paid reservation has just been cancelled and refunded
CancelledAndRefunded ==
    /\ result = Response("cancelBooking", "ok")
    /\ \E b \in bookings : b.status = "cancelled" /\ b.paymentStatus = "refunded"

(***************************************************************************)
(* Properties of concurrent requests                                       *)
(***************************************************************************)
\* C2: of two create requests for the identical court, startTime and
\* endTime that run concurrently only one inserts: no state holds two
\* active reservations on the same court with the same window.
NoTwinBookings ==
    \A a \in bookings, b \in bookings :
        (a.id # b.id /\ a.courtId = b.courtId /\ IsActive(a) /\ IsActive(b))
            => ~(a.startTime = b.startTime /\ a.endTime = b.endTime)

(***************************************************************************)
(* Properties of the availability check                                    *)
(***************************************************************************)
\* candidate instants: every tick of the days 0..MaxDay + 1 and a little beyond
Instants == 0..((MaxDay + 2) * DayLen + MaxDur)

\* C3: for a candidate [s, e), s < e, and a stored active reservation
\* [bs, be), bs < be, the booking query of checkTimeSlotAvailability selects
\* the reservation exactly when s < be and bs < e, and the check then
\* answers false; windows that only touch do not conflict.
ConflictIffOverlap ==
    \A b \in bookings : \A s \in Instants, e \in Instants :
        (s < e /\ b.startTime < b.endTime /\ IsActive(b))
            => /\ (b \in conflictingBookings(bookings, b.courtId, s, e, NoId))
                      <=> (s < b.endTime /\ b.startTime < e)
               /\ (s < b.endTime /\ b.startTime < e)
                      => ~checkTimeSlotAvailability(bookings, blocks,
                                                    b.courtId, s, e, NoId)
               /\ (e = b.startTime \/ s = b.endTime)
                      => b \notin conflictingBookings(bookings, b.courtId,
                                                      s, e, NoId)

\* a window has been reported unavailable because of a stored reservation
UnavailableByBooking ==
    /\ result = Response("checkAvailability", "unavailable")
    /\ blocks = {}
    /\ \E b \in bookings : IsActive(b)

AllDay(k) == k.isActive /\ k.startTime = NoTime /\ k.endTime = NoTime

\* C8: while an active blackout without time bounds on a court covers the
\* days startDate..endDate, every candidate that starts on one of those
\* days is refused: checkTimeSlotAvailability (with or without an excluded
\* id) and CourtAvailabilityService.checkAvailability answer false, and
\* create, a window-changing update and the public create are rejected.  For
\* a candidate that starts on another day the answers are the ones obtained
\* without this blackout.
AllDayBlackoutCoversRange ==
    \A k \in blocks : AllDay(k) =>
        /\ \A w \in Windows :
            LET s == w[1]
                e == w[2]
                d == s \div DayLen
                owner == court[k.courtId].complex
            IN  IF k.startDate <= d /\ d <= k.endDate
                THEN /\ ~checkTimeSlotAvailability(bookings, blocks, k.courtId,
                                                   s, e, NoId)
                     /\ createCheck(bookings, blocks, owner,
                            CreateDto(k.courtId, "k1", d, s, e, Absent, Absent))
                          = "Conflict"
                     /\ \A b \in bookings : b.courtId = k.courtId =>
                          /\ ~checkTimeSlotAvailability(bookings, blocks,
                                                k.courtId, s, e, b.id)
                          /\ updateCheck(bookings, blocks, b.id, b.userId,
                                 UpdateDto(Absent, NoTime, s, e, Absent, Absent))
                               = "Conflict"
                ELSE checkTimeSlotAvailability(bookings, blocks, k.courtId,
                                               s, e, NoId)
                       = checkTimeSlotAvailability(bookings, blocks \ {k},
                                                   k.courtId, s, e, NoId)
        /\ \A d \in CandidateDays, st \in ClockTimes, et \in ClockTimes :
                IF k.startDate <= d /\ d <= k.endDate
                THEN /\ ~availabilityCheck(blocks, k.courtId, d, st, et)
                     /\ publicCheck(bookings, blocks,
                            PublicDto(k.courtId, d, st, et, FALSE, Absent, "k1"))
                          # "ok"
                ELSE availabilityCheck(blocks, k.courtId, d, st, et)
                       = availabilityCheck(blocks \ {k}, k.courtId, d, st, et)

\* a create has been refused on a court that has no reservation, only an
\* active blackout without time bounds
RefusedByAllDayBlackout ==
    /\ result = Response("create", "Conflict")
    /\ bookings = {}
    /\ \E k \in blocks : AllDay(k)

Timed(k) ==
    /\ k.isActive
    /\ k.startTime # NoTime /\ k.endTime # NoTime
    /\ k.startTime < k.endTime

\* C9: for a candidate that starts and ends on one day covered by an active
\* blackout with time bounds [bs, be), bs < be, the blackout turns the answer
\* of the check to false exactly when the candidate's ticks of the day
\* [s, e) satisfy s < be and bs < e: the answer is the one obtained without
\* the blackout, and not overlapping it.
TimedBlackoutIffOverlap ==
    \A k \in blocks : Timed(k) =>
        \A d \in k.startDate..k.endDate :
            \A sm \in ClockTimes, em \in ClockTimes : sm < em =>
                LET hit == sm < k.endTime /\ k.startTime < em
                IN  /\ checkTimeSlotAvailability(bookings, blocks, k.courtId,
                            SetHours(d, sm), SetHours(d, em), NoId)
                         = (/\ checkTimeSlotAvailability(bookings, blocks \ {k},
                                   k.courtId, SetHours(d, sm), SetHours(d, em),
                                   NoId)
                            /\ ~hit)
                    /\ availabilityCheck(blocks, k.courtId, d, sm, em)
                         = (/\ availabilityCheck(blocks \ {k}, k.courtId, d,
                                                 sm, em)
                            /\ ~hit)

\* a window has been reported unavailable on a court that has no
\* reservation, only an active blackout with time bounds
UnavailableByTimedBlackout ==
    /\ result = Response("checkAvailability", "unavailable")
    /\ bookings = {}
    /\ blocks # {}
    /\ \A k \in blocks : Timed(k)

\* the ticks a blackout occupies on day d
BlackoutStart(k, d) == Midnight(d) + (IF WholeDay(k) THEN 0 ELSE k.startTime)

BlackoutEnd(k, d) == Midnight(d) + (IF WholeDay(k) THEN DayLen ELSE k.endTime)

BlackoutOverlaps(courtId, s, e) ==
    \E k \in blocks :
        /\ k.courtId = courtId
        /\ k.isActive
        /\ \E d \in k.startDate..k.endDate :
               Overlaps(s, e, BlackoutStart(k, d), BlackoutEnd(k, d))

MoveDtos ==
    {UpdateDto(Absent, NoTime, s, e, Absent, Absent) :
        s \in Instants \cup {NoTime}, e \in Instants \cup {NoTime}}

\* C10: an update of the window by the owner succeeds whenever the new
\* effective window has end > start, overlaps no other active reservation
\* on the court and no active blackout -- the reservation's own stored
\* window never counts.
UpdateSucceedsWhenFree ==
    \A b \in bookings : \A dto \in MoveDtos :
        LET s == effStart(b, dto)
            e == effEnd(b, dto)
        IN  (/\ dto.startTime # NoTime \/ dto.endTime # NoTime
             /\ e > s
             /\ \A o \in bookings :
                    (o.id # b.id /\ o.courtId = b.courtId /\ IsActive(o))
                        => ~Overlaps(s, e, o.startTime, o.endTime)
             /\ ~BlackoutOverlaps(b.courtId, s, e))
                => updateCheck(bookings, blocks, b.id, b.userId, dto) = "ok"

(***************************************************************************)
(* Properties of ownership                                                 *)
(***************************************************************************)
\* C11: every stored reservation sits on a court whose complex belongs to
\* the user recorded on the reservation, after any sequence of requests.
StoredOnOwnersCourt ==
    \A b \in bookings : court[b.courtId].complex = b.userId

(***************************************************************************)
(* Properties of the public create path                                    *)
(***************************************************************************)
\* C12: for every court, day and same-day candidate "HH:mm" window with
\* start < end, over the stored reservations and blackouts, the public
\* create path accepts the window (blackout check, then reservation query)
\* exactly when checkTimeSlotAvailability without an excluded id answers
\* true for the same instants; on a court that is switched on, a complete
\* public request is then served exactly in that case.
PublicDecidesLikeService ==
    \A c \in DOMAIN court, d \in CandidateDays :
        \A st \in ClockTimes, et \in ClockTimes : st < et =>
            LET ok == checkTimeSlotAvailability(bookings, blocks, c,
                          SetHours(d, st), SetHours(d, et), NoId)
            IN  /\ publicAvailable(bookings, blocks, c, d, st, et) = ok
                /\ court[c].isActive =>
                      (publicCheck(bookings, blocks,
                           PublicDto(c, d, st, et, FALSE, Absent, "k1")) = "ok")
                        = ok

\* a public create has just been refused while a reservation and an active
\* blackout with time bounds are stored on one court and day: both paths
\* refuse one window of that day because of the reservation alone and
\* another because of the blackout alone, and accept a window of some day
BothPathsDecide ==
    /\ result = Response("createBooking", "BadRequest")
    /\ \E b \in bookings, k \in blocks :
        /\ IsActive(b) /\ Timed(k) /\ k.courtId = b.courtId
        /\ \E d \in CandidateDays, st \in ClockTimes, et \in ClockTimes :
               /\ st < et
               /\ publicAvailable(bookings, blocks, b.courtId, d, st, et)
        /\ \E st \in ClockTimes, et \in ClockTimes :
               /\ st < et
               /\ ~publicAvailable(bookings, blocks, b.courtId, k.startDate, st, et)
               /\ publicAvailable(bookings \ {b}, blocks, b.courtId,
                                   k.startDate, st, et)
        /\ \E st \in ClockTimes, et \in ClockTimes :
               /\ st < et
               /\ ~publicAvailable(bookings, blocks, b.courtId, k.startDate, st, et)
               /\ publicAvailable(bookings, blocks \ {k}, b.courtId,
                                   k.startDate, st, et)

(***************************************************************************)
(* Properties of windows given back                                        *)
(***************************************************************************)
\* no active reservation on the court, other than those in except,
\* overlaps [s, e)
FreeOfOthers(except, courtId, s, e) ==
    \A o \in bookings :
        (o.id \notin except /\ o.courtId = courtId /\ IsActive(o))
            => ~Overlaps(s, e, o.startTime, o.endTime)

NoActiveBlackout(courtId) ==
    \A k \in blocks : ~(k.courtId = courtId /\ k.isActive)

\* a client of the owner of the court
ClientOfOwner(courtId) ==
    CHOOSE k \in DOMAIN client : client[k].userId = court[courtId].complex

\* C13: while a reservation is cancelled or completed and its court has no
\* active blackout, every window [s, e), s < e, that overlaps it and no
\* active reservation of the court is accepted by create (called by the
\* owner with a client of the owner), and is accepted as the new window of
\* any reservation of the court that no other active reservation overlaps.
CancelledFreesWindow ==
    \A b \in bookings :
        (b.status \in {"cancelled", "completed"} /\ NoActiveBlackout(b.courtId))
        => \A s \in Instants, e \in Instants :
             (s < e /\ Overlaps(s, e, b.startTime, b.endTime))
             => /\ FreeOfOthers({}, b.courtId, s, e)
                    => createCheck(bookings, blocks, court[b.courtId].complex,
                           CreateDto(b.courtId, ClientOfOwner(b.courtId),
                                     s \div DayLen, s, e, Absent, Absent))
                         = "ok"
                /\ \A o \in bookings :
                     (o.courtId = b.courtId /\ FreeOfOthers({o.id}, b.courtId, s, e))
                     => updateCheck(bookings, blocks, o.id, o.userId,
                            UpdateDto(Absent, NoTime, s, e, Absent, Absent))
                          = "ok"

\* a create has just been served for a window that a cancelled reservation
\* of the court still overlaps, next to a blackout that is switched off
ReusedCancelledWindow ==
    /\ result = Response("create", "ok")
    /\ blocks # {}
    /\ \E a \in bookings, b \in bookings :
           /\ a.status = "cancelled" /\ IsActive(b) /\ a.courtId = b.courtId
           /\ Overlaps(a.startTime, a.endTime, b.startTime, b.endTime)

(***************************************************************************)
(* Properties of the slot projections                                      *)
(***************************************************************************)
\* "HH:mm" as minutes of the day
ClockMinutes(hm) == hm.h * MinutesPerHour + hm.m

\* C14: for every day, whatever is stored, both slot projections return
\* exactly 34 slots: the first starts at 06:00, the last ends at 23:00,
\* every slot is 30 minutes long and starts where the previous one ends, so
\* none extends past 23:00.
SlotsPartitionTheDay ==
    \A c \in DOMAIN court, d \in CandidateDays :
        LET ds == getAvailableSlots(bookings, c, d)
            ps == publicGetAvailableSlots(bookings, blocks, c, d)
        IN  /\ Len(ds) = 34
            /\ ds[1].startTime = SetHoursMinutes(d, 6, 0)
            /\ ds[Len(ds)].endTime = SetHoursMinutes(d, 23, 0)
            /\ \A i \in DOMAIN ds : ds[i].endTime = ds[i].startTime + 30
            /\ \A i \in DOMAIN ds :
                    i > 1 => ds[i].startTime = ds[i - 1].endTime
            /\ Len(ps) = 34
            /\ ClockMinutes(ps[1].startTime) = 6 * 60
            /\ ClockMinutes(ps[Len(ps)].endTime) = 23 * 60
            /\ \A i \in DOMAIN ps :
                    /\ ps[i].startTime.m \in 0..59 /\ ps[i].endTime.m \in 0..59
                    /\ ClockMinutes(ps[i].endTime)
                         = ClockMinutes(ps[i].startTime) + 30
            /\ \A i \in DOMAIN ps :
                    i > 1 => ps[i].startTime = ps[i - 1].endTime

\* both projections have been asked; the last answer shows a day of which
\* some slots are taken by a reservation
SlotsOfABookedDay ==
    /\ result.op \in {"checkAvailabilityOfDay", "publicSlotsOfDay"}
    /\ result.code = "some"
    /\ \E b \in bookings : IsActive(b)
    /\ blocks = {}

\* C15: on every day of the range of an active blackout without time
\* bounds, every slot of the court is marked unavailable by the dashboard
\* projection and by the public projection.
AllDayBlackoutClosesSlots ==
    \A k \in blocks : AllDay(k) =>
        \A d \in k.startDate..k.endDate :
            LET ds == getAvailableSlots(bookings, k.courtId, d)
                ps == publicGetAvailableSlots(bookings, blocks, k.courtId, d)
            IN  /\ \A i \in DOMAIN ps : ~ps[i].available
                /\ \A i \in DOMAIN ds : ~ds[i].available

(***************************************************************************)
(* Properties of the errors                                                *)
(***************************************************************************)
\* C16: a create, an update or a public create that is refused because the
\* availability check answers false for its window -- every check made
\* before it having passed -- is answered with the scheduling-conflict
\* error (409), never with a validation error (400).
ConflictAnswered409 ==
    [][/\ result'.op = "create" =>
            \A userId \in Users, dto \in DeskCreateDtos :
                (/\ create(userId, dto)
                 /\ createCheck({}, {}, userId, dto) = "ok"
                 /\ ~checkTimeSlotAvailability(bookings, blocks, dto.courtId,
                                               dto.startTime, dto.endTime, NoId))
                    => result'.code = "Conflict"
       /\ result'.op = "update" =>
            \A id \in BookingIds, userId \in Users, dto \in DeskUpdateDtos :
                (/\ update(id, userId, dto)
                 /\ findOne(bookings, id, userId) = "ok"
                 /\ dto.startTime # NoTime \/ dto.endTime # NoTime
                 /\ effEnd(Row(id), dto) > effStart(Row(id), dto)
                 /\ ~checkTimeSlotAvailability(bookings, blocks, Row(id).courtId,
                         effStart(Row(id), dto), effEnd(Row(id), dto), id))
                    => result'.code = "Conflict"
       /\ result'.op = "createBooking" =>
            \A dto \in DeskPublicDtos :
                (/\ createBooking(dto)
                 /\ publicCheck({}, {}, dto) = "ok"
                 /\ ~checkTimeSlotAvailability(bookings, blocks, dto.courtId,
                         SetHours(dto.date, dto.startTime),
                         SetHours(dto.date, dto.endTime), NoId))
                    => result'.code = "Conflict"]_vars

\* the court and the client of a create request exist and belong to the caller
CatalogOk(userId, dto) ==
    /\ dto.courtId \in DOMAIN court /\ court[dto.courtId].complex = userId
    /\ dto.clientId \in DOMAIN client /\ client[dto.clientId].userId = userId

\* C17: a create request with endTime <= startTime is answered with the
\* validation error (400) even when its court or client is missing or not
\* the caller's; a request with a valid window whose court or client is
\* missing or not the caller's is answered not-found or forbidden, whether
\* or not the window is free; the scheduling conflict is answered only when
\* all of those checks passed.  The public create answers the validation
\* error for endTime <= startTime even when the court is missing.
ErrorPrecedence ==
    [][/\ result'.op = "create" =>
            \A userId \in Users, dto \in DeskCreateDtos :
                create(userId, dto) =>
                    /\ dto.endTime <= dto.startTime
                           => result'.code = "BadRequest"
                    /\ (dto.endTime > dto.startTime /\ ~CatalogOk(userId, dto))
                           => result'.code \in {"NotFound", "Forbidden"}
                    /\ result'.code = "Conflict"
                           => (dto.endTime > dto.startTime /\ CatalogOk(userId, dto))
       /\ result'.op = "createBooking" =>
            \A dto \in DeskPublicDtos :
                createBooking(dto) =>
                    (dto.endTime <= dto.startTime => result'.code = "BadRequest")]_vars

(***************************************************************************)
(* Properties of updates in flight                                         *)
(***************************************************************************)
\* C18: whatever the interleaving of the availability checks and the writes
\* of an update with those of a create or of another update, no state holds
\* two active reservations on one court whose windows overlap.
NoOverlapAfterRacingUpdate ==
    \A a \in bookings, b \in bookings :
        (a.id # b.id /\ a.courtId = b.courtId /\ IsActive(a) /\ IsActive(b))
            => ~(a.startTime < b.endTime /\ b.startTime < a.endTime)

\* C19: every stored reservation has endTime > startTime, in every state
\* reached by create, public create and update requests served one at a
\* time or in flight together, updates that supply only startTime or only
\* endTime included.
EndAfterStart ==
    \A b \in bookings : b.endTime > b.startTime

(***************************************************************************)
(* Properties of updates that name a court                                 *)
(***************************************************************************)
\* C20: a step moves a stored reservation to another court only if that
\* court's complex belongs to the caller (the user recorded on the
\* reservation, the only one update serves) and the reservation's resulting
\* window is available on that court -- no overlapping active reservation
\* other than itself and no active blackout there; in every other case the
\* reservation keeps its court.
CourtChangeChecked ==
    [][\A id \in BookingIds :
          (/\ \E b \in bookings : b.id = id
           /\ \E b \in bookings' : b.id = id
           /\ RowAfter(id).courtId # Row(id).courtId)
              => /\ court[RowAfter(id).courtId].complex = Row(id).userId
                 /\ checkTimeSlotAvailability(bookings, blocks,
                        RowAfter(id).courtId, RowAfter(id).startTime,
                        RowAfter(id).endTime, id)]_vars

(***************************************************************************)
(* Properties of the blackout registry                                     *)
(***************************************************************************)
BlackoutOps ==
    {"availabilityCreate", "availabilityUpdate", "availabilityRemove",
     "toggleActive"}

\* C21: a request that creates, updates, toggles or deletes a blackout,
\* served or refused, leaves every stored reservation as it was -- same
\* status, window and court -- also when the blackout covers an active
\* reservation; the blackout is read only by the availability checks made
\* after it.
BlackoutLeavesBookings ==
    [][result'.op \in BlackoutOps => bookings' = bookings]_vars

\* a blackout was just written over a day that holds an active reservation,
\* which the availability check now refuses
BlackoutOverActiveBooking ==
    /\ result = Response("availabilityCreate", "ok")
    /\ \E b \in bookings, k \in blocks :
          /\ IsActive(b) /\ k.isActive /\ k.courtId = b.courtId
          /\ k.startDate <= b.bookingDate /\ b.bookingDate <= k.endDate
          /\ ~checkTimeSlotAvailability(bookings \ {b}, blocks, b.courtId,
                                        b.startTime, b.endTime, NoId)

\* C22: every stored blackout has endDate >= startDate and, when it has
\* both time fields, an end minute count strictly greater than its start
\* minute count, after any sequence of blackout creates and updates,
\* updates that supply only one date or only one time included.
BlackoutWellFormed ==
    \A k \in blocks :
        /\ k.endDate >= k.startDate
        /\ (k.startTime # NoTime /\ k.endTime # NoTime)
               => k.endTime > k.startTime

(***************************************************************************)
(* Properties of the slot projections                                      *)
(***************************************************************************)
\* an active blackout of the court whose date range holds the day covers
\* the slot [ss, se) (minutes of the day): it has no time interval, or its
\* interval [startTime, endTime) overlaps the slot
BlackoutCoversSlot(courtId, d, ss, se) ==
    \E k \in blocks :
        /\ k.isActive /\ k.courtId = courtId
        /\ k.startDate <= d /\ d <= k.endDate
        /\ \/ WholeDay(k)
           \/ (ss < ToMinutes(k.endTime) /\ ToMinutes(k.startTime) < se)

\* an active reservation fetched for the day overlaps the slot
BookingCoversSlot(courtId, d, ss, se) ==
    \E b \in bookings :
        /\ b.courtId = courtId /\ IsActive(b) /\ b.bookingDate = d
        /\ ToMinutes(Midnight(d)) + ss < ToMinutes(b.endTime)
        /\ ToMinutes(b.startTime) < ToMinutes(Midnight(d)) + se

\* C23: every slot of the public projection is classified in this order:
\* covered by an active blackout of the day -> unavailable with the
\* blackout's reason, also when a reservation overlaps it; else overlapped
\* by an active reservation fetched for the day -> unavailable with the
\* existing-booking reason; else available without a reason.
PublicSlotClassified ==
    \A d \in CandidateDays :
        LET ps == publicGetAvailableSlots(bookings, blocks, "c1", d)
        IN  \A i \in DOMAIN ps :
                LET ss == ClockMinutes(ps[i].startTime)
                    se == ClockMinutes(ps[i].endTime)
                    blocked == BlackoutCoversSlot("c1", d, ss, se)
                    booked == BookingCoversSlot("c1", d, ss, se)
                IN  /\ ps[i].available = (~blocked /\ ~booked)
                    /\ ps[i].reason = IF blocked THEN "blocked"
                                      ELSE IF booked THEN "booked"
                                      ELSE Absent

\* an active reservation of the court whose window [startTime, endTime)
\* overlaps the minutes [from, to)
WindowOverlapsSlot(courtId, from, to) ==
    \E b \in bookings :
        /\ b.courtId = courtId /\ IsActive(b)
        /\ from < ToMinutes(b.endTime) /\ ToMinutes(b.startTime) < to

\* C24: in both projections, every slot of a day that overlaps the window
\* of an active reservation of the court is reported unavailable, whatever
\* the bookingDate of that reservation.
BookedSlotsUnavailable ==
    \A d \in CandidateDays :
        LET ds == getAvailableSlots(bookings, "c1", d)
            ps == publicGetAvailableSlots(bookings, blocks, "c1", d)
            day == ToMinutes(Midnight(d))
        IN  /\ \A i \in DOMAIN ds :
                   WindowOverlapsSlot("c1", ds[i].startTime, ds[i].endTime)
                       => ~ds[i].available
            /\ \A i \in DOMAIN ps :
                   WindowOverlapsSlot("c1",
                        day + ClockMinutes(ps[i].startTime),
                        day + ClockMinutes(ps[i].endTime))
                       => ~ps[i].available

BlackoutCoversCandidate(k, d, sm, em) ==
    /\ k.startDate <= d /\ d <= k.endDate
    /\ \/ WholeDay(k)
       \/ (sm < k.endTime /\ k.startTime < em)

\* the answers of both checks for a candidate of court c over blackouts blks
BothAvailable(blks, c, d, sm, em) ==
    /\ checkTimeSlotAvailability(bookings, blks, c, SetHours(d, sm),
                                 SetHours(d, em), NoId)
    /\ availabilityCheck(blks, c, d, sm, em)

NeitherAvailable(blks, c, d, sm, em) ==
    /\ ~checkTimeSlotAvailability(bookings, blks, c, SetHours(d, sm),
                                  SetHours(d, em), NoId)
    /\ ~availabilityCheck(blks, c, d, sm, em)

\* C26: when a step toggles an active blackout off or deletes it, every
\* same-day candidate that was refused solely because of it (accepted with
\* that blackout left out) is accepted by checkTimeSlotAvailability and by
\* CourtAvailabilityService.checkAvailability in the new state; when a step
\* toggles a blackout on again, every candidate it covers is refused by
\* both.
OnlyActiveBlackoutsCount ==
    [][(result' = Response("toggleActive", "ok")
          \/ result' = Response("availabilityRemove", "ok")) =>
       \A k \in blocks : k \notin blocks' =>
          \A d \in CandidateDays, sm \in ClockTimes, em \in ClockTimes :
             sm < em =>
                IF k.isActive
                THEN BothAvailable(blocks \ {k}, k.courtId, d, sm, em)
                        => BothAvailable(blocks', k.courtId, d, sm, em)
                ELSE ([k EXCEPT !.isActive = TRUE] \in blocks'
                        /\ BlackoutCoversCandidate(k, d, sm, em))
                        => NeitherAvailable(blocks', k.courtId, d, sm, em)]_vars

\* a blackout has just been switched on again (it was created active), and
\* it is the only reason of a refusal: no reservation is stored
SwitchedOnAgain ==
    /\ result = Response("toggleActive", "ok")
    /\ bookings = {}
    /\ \E k \in blocks :
          /\ k.isActive
          /\ \E d \in CandidateDays, sm \in ClockTimes, em \in ClockTimes :
                /\ sm < em
                /\ NeitherAvailable(blocks, k.courtId, d, sm, em)
                /\ BothAvailable(blocks \ {k}, k.courtId, d, sm, em)

(***************************************************************************)
(* Properties of candidates that run past midnight                         *)
(***************************************************************************)
\* C27: a candidate that starts on a day covered by an active blackout
\* with time bounds [bs, be) and ends at or after midnight of the following
\* day is refused by checkTimeSlotAvailability whenever the part of it that
\* lies on its start day, [start, midnight), overlaps [bs, be).
OvernightCandidateRefused ==
    \A k \in blocks : Timed(k) =>
        \A w \in NightWindows :
            LET d == w[1] \div DayLen
                sm == w[1] % DayLen
            IN  (/\ k.startDate <= d /\ d <= k.endDate
                 /\ w[2] >= Midnight(d + 1)
                 /\ sm < k.endTime /\ k.startTime < DayLen)
                    => ~checkTimeSlotAvailability(bookings, blocks, k.courtId,
                                                  w[1], w[2], NoId)

(***************************************************************************)
(* Properties of toggles in flight                                         *)
(***************************************************************************)
\* C28: every toggleActive call that succeeds flips the isActive flag of
\* its blackout: the flag after its write is the negation of the flag
\* before it, whatever the interleaving of the reads and writes of the
\* calls -- so n successful calls leave the original value when n is even
\* and its negation when n is odd.  (A call completes in the step that
\* answers it: no request is added to those in flight.)
EachToggleFlips ==
    [][(result' = Response("toggleActive", "ok") /\ pend' \subseteq pend) =>
          \E k \in blocks :
              /\ k \notin blocks'
              /\ blocks' = (blocks \ {k})
                              \cup {[k EXCEPT !.isActive = ~k.isActive]}]_vars

(***************************************************************************)
(* Properties of courts that are switched off                              *)
(***************************************************************************)
\* C29: a public create never stores a reservation on a court whose
\* isActive flag is false: every public create request for such a court is
\* rejected and leaves the bookings table as it was.
PublicCreateNeedsActiveCourt ==
    [][result'.op = "createBooking" =>
          /\ \A b \in bookings' \ bookings : court[b.courtId].isActive
          /\ \A dto \in GatePublicDtos :
                (~court[dto.courtId].isActive /\ createBooking(dto))
                    => /\ result'.code \notin {"ok", "NotFound"}
                       /\ bookings' = bookings]_vars

\* a complete public request with start < end has been refused while no
\* reservation and no blackout is stored: it named the court switched off
RefusedOnInactiveCourt ==
    /\ result = Response("createBooking", "BadRequest")
    /\ bookings = {}
    /\ blocks = {}

\* C30: in an answer of the dashboard projection, every slot reported with
\* available = false carries the id of a fetched (active) reservation that
\* overlaps the slot, and every slot reported available carries no
\* bookingId -- also when a reservation lies strictly inside one slot.
UnavailableSlotNamesBooking ==
    result.op = "getAvailableSlots" =>
        \A i \in DOMAIN result.code.slots :
            LET slot == result.code.slots[i]
            IN  /\ ~slot.available =>
                      \E b \in result.code.rows :
                          /\ b.id = slot.bookingId
                          /\ slot.startTime < b.endTime
                          /\ b.startTime < slot.endTime
                /\ slot.available => slot.bookingId = NoId

====
